---- MODULE Spec2Model ----
(***************************************************************************)
(* The /route handler of the comfort-routing backend (src/app.py,          *)
(* generate_route) as a state machine: one request travels from the JSON   *)
(* body through weight normalisation, the database connection, the two     *)
(* nearest-node lookups, the route query, feature assembly, the metrics    *)
(* query, and the except/finally blocks to its HTTP response.              *)
(*                                                                         *)
(* Units.  Python divides the sliders by 10 and interpolates the floats    *)
(* into SQL text, where they are exact decimals.  The model keeps every    *)
(* quantity as an integer:                                                 *)
(*   weights  in tenths            (0.5 is 5),                             *)
(*   alpha    in tenths            (0.5 is 5, 5.0 is 50, 10.0 is 100),     *)
(*   normalised attributes in units of 1/AttrScale (1.0 is AttrScale),     *)
(*   costs    in units of 1/CostScale, CostScale = 10 * 10 * AttrScale.    *)
(***************************************************************************)
EXTENDS Integers, Sequences, FiniteSets, TLC

\* ------------------------------------------------------------------ bounds
\* Resolution of the normalised road attributes: 0 .. AttrScale stands for 0.0 .. 1.0.
AttrScale == 2
\* Longest edge drawn when the cost functions are checked on their own.
MaxLen == 2

\* -------------------------------------------------------- program constants
\* data.get(key, 5): the slider value of an optional factor that is absent.
DefaultSlider == 5
\* The divisor of the normalisation, slider / 10 (weights are kept in tenths).
WeightScale == 10
\* alpha, in tenths: {1: 0.5, 2: 5.0, 3: 10.0}.get(length_level, 5.0)
AlphaShort == 5
AlphaBalanced == 50
AlphaComfort == 100
\* SQL NULL in a column of munich_roads.
Null == -1
\* pgr_dijkstra closes a path with a row whose edge is -1.
EndOfPath == -1
\* HTTP status codes.
HttpOk == 200
HttpServerError == 500

CostScale == WeightScale * WeightScale * AttrScale

\* ------------------------------------------------------------ request body
\* Keys of the JSON body that carry a slider; the first three are read with
\* data[key], the others with data.get(key, 5).
RequiredKeys == {"sidewalks", "surface", "greenery"}
OptionalKeys == {"speed", "buildings", "crossings", "facilities", "lanes",
                 "water", "benches", "lights", "attractiveness", "steepness"}
SliderKeys == RequiredKeys \cup OptionalKeys

\* The weights dictionary: its keys, and the body key each one is read from.
Factors == {"sidewalks", "surface", "speed", "greenery", "buildings", "crossings",
            "facilities", "lanes", "water", "benches", "light", "visuals", "gradient"}
BodyKey(f) ==
    CASE f = "light" -> "lights"
      [] f = "visuals" -> "attractiveness"
      [] f = "gradient" -> "steepness"
      [] OTHER -> f

\* The column of munich_roads each weight multiplies in the cost expression.
Column(f) ==
    CASE f = "gradient" -> "gradient_norm"
      [] f = "sidewalks" -> "pedestrian_infrastructure_norm"
      [] f = "surface" -> "pavement_norm"
      [] f = "speed" -> "max_speed_norm"
      [] f = "greenery" -> "greenness_norm"
      [] f = "buildings" -> "buildings_norm"
      [] f = "crossings" -> "crossings_norm"
      [] f = "facilities" -> "facilities_norm"
      [] f = "lanes" -> "number_lanes_norm"
      [] f = "benches" -> "benches"
      [] f = "light" -> "light"
      [] f = "visuals" -> "visuals"
      [] OTHER -> "water_norm"

Columns == {Column(f) : f \in Factors}

\* A JSON value of the "length" key: t is its JSON type, v its number (a bool
\* is 0 or 1 to Python, a float here is integral), "absent" when the key is
\* missing.
JInt(n) == [t |-> "int", v |-> n]
JAbsent == [t |-> "absent", v |-> 0]

\* Python: a list or a dict is unhashable, and dict.get(key) raises TypeError.
PyHashable(j) == j.t \notin {"list", "object"}
\* Python: True == 1, 2.0 == 2 and they hash alike; a str or None equals no int.
PyIsNumber(j) == j.t \in {"int", "float", "bool"}

\* length_level = data.get('length', 2)
LengthLevel(length) == IF length.t = "absent" THEN JInt(2) ELSE length

\* alpha = {1: 0.5, 2: 5.0, 3: 10.0}.get(length_level, 5.0), in tenths.
AlphaOf(level) ==
    IF PyIsNumber(level) /\ level.v = 1 THEN AlphaShort
    ELSE IF PyIsNumber(level) /\ level.v = 2 THEN AlphaBalanced
    ELSE IF PyIsNumber(level) /\ level.v = 3 THEN AlphaComfort
    ELSE AlphaBalanced

\* data[key] raises KeyError for a missing required key.
MissingRequired(sliders) == RequiredKeys \ DOMAIN sliders # {}

\* data.get(key, 5)
SliderOf(sliders, key) ==
    IF key \in DOMAIN sliders THEN sliders[key] ELSE DefaultSlider

\* weights = {...: data[...] / 10, ...}, in tenths: the slider itself.
BuildWeights(sliders) == [f \in Factors |-> SliderOf(sliders, BodyKey(f))]

\* -------------------------------------------------------------- cost models
\* COALESCE(column, 0)
Coalesce(x) == IF x = Null THEN 0 ELSE x

\* Term with the difference taken the other way round, COALESCE(column, 0) - 1.
TermReversed(w, e, f) == w[f] * (Coalesce(e[Column(f)]) - AttrScale)

\* weight * (1 - COALESCE(column, 0)), in units of 1 / (WeightScale * AttrScale).
Term(w, e, f) == w[f] * (AttrScale - Coalesce(e[Column(f)]))

\* The thirteen terms of the cost expression, in the order of the SQL text.
Discomfort(w, e) ==
    Term(w, e, "gradient") + Term(w, e, "sidewalks") + Term(w, e, "surface")
    + Term(w, e, "speed") + Term(w, e, "greenery") + Term(w, e, "buildings")
    + Term(w, e, "crossings") + Term(w, e, "facilities") + Term(w, e, "lanes")
    + Term(w, e, "benches") + Term(w, e, "light") + Term(w, e, "visuals")
    + Term(w, e, "water")

\* length * (1 + alpha * (...)) AS cost, in units of 1 / CostScale.
ComfortCost(w, a, e) == e.length * (CostScale + a * Discomfort(w, e))

\* length AS cost, in the same units.
DistanceCost(e) == e.length * CostScale

\* ------------------------------------------------------- the road database
\* A row of munich_roads whose thirteen normalised columns all hold x.
UniformRoad(g, s, t, len, x) ==
    [gid |-> g, source |-> s, target |-> t, length |-> len, geom |-> TRUE,
     gradient_norm |-> x, pedestrian_infrastructure_norm |-> x, pavement_norm |-> x,
     max_speed_norm |-> x, greenness_norm |-> x, buildings_norm |-> x,
     crossings_norm |-> x, facilities_norm |-> x, number_lanes_norm |-> x,
     benches |-> x, light |-> x, visuals |-> x, water_norm |-> x]

\* The table munich_roads the handler reads (it never writes it):
\*   1 and 2 are parallel edges between nodes 1 and 2, the long one fully
\*     comfortable, the short one without sidewalk and pavement;
\*   3 continues to node 3 and has no greenness value (NULL);
\*   4 joins 1 and 3 directly, as long as 2 then 3, and has no geometry;
\*   5 lies in another component of the network (nodes 4 and 5).
MunichRoads ==
    { UniformRoad(1, 1, 2, 2, AttrScale),
      [UniformRoad(2, 1, 2, 1, AttrScale) EXCEPT
          !.pedestrian_infrastructure_norm = 0, !.pavement_norm = 0],
      [UniformRoad(3, 2, 3, 1, AttrScale) EXCEPT
          !.greenness_norm = Null, !.benches = 1],
      [UniformRoad(4, 1, 3, 2, 0) EXCEPT !.geom = FALSE],
      UniformRoad(5, 4, 5, 1, AttrScale) }

Gids == {r.gid : r \in MunichRoads}
Road(g) == CHOOSE r \in MunichRoads : r.gid = g

\* The points a request may name, and the vertex of munich_roads_vertices_pgr
\* nearest to each (ORDER BY the_geom <-> point LIMIT 1).
Points == {"a", "b", "c"}
NearestNode(p) == CASE p = "a" -> 1 [] p = "b" -> 3 [] OTHER -> 4

\* -------------------------------------------------------------- pgr_dijkstra
\* The inner SQL of each pgr_dijkstra call: every row of munich_roads with its cost.
ComfortEdges(w, a) == [g \in Gids |-> ComfortCost(w, a, Road(g))]
DistanceEdges == [g \in Gids |-> DistanceCost(Road(g))]

OtherEnd(r, n) == IF r.source = n THEN r.target ELSE r.source

\* The simple paths from n to t, as sequences of edge ids, over the edges of G
\* (directed := false: an edge is walked either way), avoiding the nodes seen.
RECURSIVE PathsFrom(_, _, _, _)
PathsFrom(G, n, t, seen) ==
    IF n = t THEN {<< >>}
    ELSE LET out == {r \in G : /\ n \in {r.source, r.target}
                               /\ OtherEnd(r, n) \notin seen \cup {n}}
         IN UNION {{<<r.gid>> \o p : p \in PathsFrom(G, OtherEnd(r, n), t, seen \cup {n})}
                   : r \in out}

RECURSIVE PathCost(_, _)
PathCost(cost, p) == IF p = << >> THEN 0 ELSE cost[Head(p)] + PathCost(cost, Tail(p))

\* What SELECT edge FROM pgr_dijkstra(edges, s, t, directed := false) may
\* return: no row when s = t or when t cannot be reached; otherwise the edges
\* of one minimum-cost path, whichever the solver settles on, closed by -1.
\* An edge whose cost is negative is not part of the solver's graph.
Dijkstra(cost, s, t) ==
    LET G == {r \in MunichRoads : cost[r.gid] >= 0}
        paths == PathsFrom(G, s, t, {})
        best == {p \in paths : \A q \in paths : PathCost(cost, p) <= PathCost(cost, q)}
    IN IF s = t \/ paths = {} THEN {<< >>}
       ELSE {p \o <<EndOfPath>> : p \in best}

\* ------------------------------------------------------------------ the SQL
RECURSIVE JoinRoads(_, _)
\* FROM munich_roads AS r JOIN <route> ON r.gid = <route>.edge, tagged with
\* the route type: an edge id without a row in munich_roads yields no row.
JoinRoads(edges, alias) ==
    IF edges = << >> THEN << >>
    ELSE IF Head(edges) \in Gids
         THEN <<Road(Head(edges)) @@ [route_type |-> alias]>>
              \o JoinRoads(Tail(edges), alias)
         ELSE JoinRoads(Tail(edges), alias)

Range(q) == {q[i] : i \in 1..Len(q)}

\* SELECT * FROM munich_roads WHERE gid IN (SELECT edge FROM <route>)
RouteData(edges) == {r \in MunichRoads : r.gid \in Range(edges)}

RECURSIVE SumLength(_)
SumLength(R) ==
    IF R = {} THEN 0
    ELSE LET r == CHOOSE x \in R : TRUE IN r.length + SumLength(R \ {r})

RECURSIVE SumColumn(_, _)
SumColumn(R, c) ==
    IF R = {} THEN 0
    ELSE LET r == CHOOSE x \in R : TRUE IN r[c] + SumColumn(R \ {r}, c)

\* SUM(length): NULL over no row.
SqlSum(R) ==
    IF R = {} THEN [null |-> TRUE, v |-> 0] ELSE [null |-> FALSE, v |-> SumLength(R)]

\* AVG(column): the mean of the values that are not NULL, kept as sum and
\* count; NULL when there is none.
SqlAvg(R, c) ==
    LET have == {r \in R : r[c] # Null}
    IN IF have = {} THEN [null |-> TRUE, sum |-> 0, n |-> 0]
       ELSE [null |-> FALSE, sum |-> SumColumn(have, c), n |-> Cardinality(have)]

\* One row of the metrics query.
MetricsRow(alias, edges) ==
    [type |-> alias,
     total_length |-> SqlSum(RouteData(edges)),
     mean |-> [c \in Columns |-> SqlAvg(RouteData(edges), c)]]

\* ---------------------------------------------------------------- requests
\* Slider values a body may carry: the frontend's 0, 5 and 10, and a value
\* below the scale, which nothing rejects.
RawSliders == {-10, 0, 5, 10}

\* The required sliders: any of them may be missing.
RequiredMaps == UNION {[K -> RawSliders] : K \in SUBSET RequiredKeys}
\* The optional sliders: none given (every default applies), or all given
\* with one value.
OptionalMaps == {[k \in {} |-> 0]} \cup {[k \in OptionalKeys |-> v] : v \in {0, 10}}
SliderMaps == {r @@ o : r \in RequiredMaps, o \in OptionalMaps}

\* Values of the "length" key: absent, the three levels, an unknown level,
\* true, the string "3", and a list.
LengthInputs ==
    {JAbsent, JInt(1), JInt(2), JInt(3), JInt(7),
     [t |-> "bool", v |-> 1], [t |-> "string", v |-> 3], [t |-> "list", v |-> 1]}

Requests == [start : Points, end : Points, sliders : SliderMaps, length : LengthInputs]

\* ------------------------------------------------------------------- state
VARIABLES
    data,               \* request.json
    pc,                 \* the handler's position
    weights, alpha,     \* the normalised preferences
    conn, cursor,       \* "none" (None), "open" or "closed"
    source_id, target_id,   \* 0 while unassigned
    rows,               \* cursor.fetchall() of the route query
    comfort_features, shortest_features,
    metrics,            \* the metrics dictionary, keyed by route type
    response,           \* what the client receives
    raised,             \* the exception in flight or last handled, "" when none
    log,                \* the calls made to the database, in order
    probe               \* an edge under the two cost models (cost check only)

vars == <<data, pc, weights, alpha, conn, cursor, source_id, target_id, rows,
          comfort_features, shortest_features, metrics, response, raised, log, probe>>

NoWeights == [f \in Factors |-> 0]
\* metrics before the metrics query has run: no entry.
NoMetrics == [v \in {} |-> 0]
NoResponse == [status |-> 0, kind |-> "none"]
\* No edge is under the cost check while a request is handled.
NoProbe == [done |-> FALSE]
\* An edge e put under the two cost models, with weights w and alpha a.
ProbeOf(w, a, e) ==
    [w |-> w, a |-> a, e |-> e, comfort |-> 0, distance |-> 0, done |-> FALSE]

\* A call on the connection or the cursor.
Call(op) == [op |-> op, cost |-> "", src |-> 0, tgt |-> 0, out |-> << >>]
\* One pgr_dijkstra invocation: its cost model, its endpoints, what it returned.
SolverCall(model, s, t, edges) ==
    [op |-> "pgr_dijkstra", cost |-> model, src |-> s, tgt |-> t, out |-> edges]

Init ==
    /\ data \in Requests
    /\ pc = "parse"
    /\ weights = NoWeights /\ alpha = 0
    /\ conn = "none" /\ cursor = "none"
    /\ source_id = 0 /\ target_id = 0
    /\ rows = << >>
    /\ comfort_features = << >> /\ shortest_features = << >>
    /\ metrics = NoMetrics
    /\ response = NoResponse
    /\ raised = ""
    /\ log = << >>
    /\ probe = NoProbe

\* An exception that leaves generate_route: Flask answers 500.
Unhandled(exc) ==
    /\ raised' = exc
    /\ response' = [status |-> HttpServerError, kind |-> "unhandled"]
    /\ pc' = "done"

\* An exception raised inside the try block: control passes to except.
Raise(exc) ==
    /\ raised' = exc
    /\ pc' = "except"

\* Lines 67-95, before the try block.
Parse ==
    /\ pc = "parse"
    /\ IF MissingRequired(data.sliders)
       THEN Unhandled("KeyError") /\ UNCHANGED <<weights, alpha>>
       ELSE IF ~PyHashable(LengthLevel(data.length))
       THEN Unhandled("TypeError") /\ UNCHANGED <<weights, alpha>>
       ELSE /\ weights' = BuildWeights(data.sliders)
            /\ alpha' = AlphaOf(LengthLevel(data.length))
            /\ pc' = "connect"
            /\ UNCHANGED <<response, raised>>
    /\ UNCHANGED <<data, conn, cursor, source_id, target_id, rows, comfort_features,
                   shortest_features, metrics, log, probe>>

\* conn = get_db_connection()
Connect ==
    /\ pc = "connect"
    /\ log' = Append(log, Call("connect"))
    /\ \/ conn' = "open" /\ pc' = "cursor" /\ UNCHANGED raised
       \/ Raise("ConnectionError") /\ UNCHANGED conn
    /\ UNCHANGED <<data, weights, alpha, cursor, source_id, target_id, rows,
                   comfort_features, shortest_features, metrics, response, probe>>

\* cursor = conn.cursor()
OpenCursor ==
    /\ pc = "cursor"
    /\ log' = Append(log, Call("cursor"))
    /\ \/ cursor' = "open" /\ pc' = "current_user" /\ UNCHANGED raised
       \/ Raise("DatabaseError") /\ UNCHANGED cursor
    /\ UNCHANGED <<data, weights, alpha, conn, source_id, target_id, rows,
                   comfort_features, shortest_features, metrics, response, probe>>

\* cursor.execute("SELECT current_user;")
CurrentUser ==
    /\ pc = "current_user"
    /\ log' = Append(log, Call("current_user"))
    /\ \/ pc' = "nearest_start" /\ UNCHANGED raised
       \/ Raise("DatabaseError")
    /\ UNCHANGED <<data, weights, alpha, conn, cursor, source_id, target_id, rows,
                   comfort_features, shortest_features, metrics, response, probe>>

\* The nearest vertex to the start coordinates.
NearestStart ==
    /\ pc = "nearest_start"
    /\ log' = Append(log, Call("nearest_start"))
    /\ \/ source_id' = NearestNode(data.start) /\ pc' = "nearest_end"
          /\ UNCHANGED raised
       \/ Raise("DatabaseError") /\ UNCHANGED source_id
    /\ UNCHANGED <<data, weights, alpha, conn, cursor, target_id, rows,
                   comfort_features, shortest_features, metrics, response, probe>>

\* The nearest vertex to the end coordinates.
NearestEnd ==
    /\ pc = "nearest_end"
    /\ log' = Append(log, Call("nearest_end"))
    /\ \/ target_id' = NearestNode(data.end) /\ pc' = "route_query"
          /\ UNCHANGED raised
       \/ Raise("DatabaseError") /\ UNCHANGED target_id
    /\ UNCHANGED <<data, weights, alpha, conn, cursor, source_id, rows,
                   comfort_features, shortest_features, metrics, response, probe>>

\* The route query: both pgr_dijkstra calls of the WITH clause, then the two
\* joins (UNION ALL).  The statement may fail after any number of the calls.
RouteQuery ==
    /\ pc = "route_query"
    /\ \E c \in Dijkstra(ComfortEdges(weights, alpha), source_id, target_id),
          d \in Dijkstra(DistanceEdges, source_id, target_id) :
          LET calls == <<SolverCall("comfort", source_id, target_id, c),
                         SolverCall("distance", source_id, target_id, d)>>
          IN \/ /\ rows' = JoinRoads(c, "comfort") \o JoinRoads(d, "shortest")
                /\ log' = log \o calls
                /\ pc' = "assemble"
                /\ UNCHANGED raised
             \/ \E k \in 0..2 :
                   /\ log' = log \o SubSeq(calls, 1, k)
                   /\ Raise("DatabaseError")
                   /\ UNCHANGED rows
    /\ UNCHANGED <<data, weights, alpha, conn, cursor, source_id, target_id,
                   comfort_features, shortest_features, metrics, response, probe>>

\* The GeoJSON Feature built from one row: the geometry is that of the edge,
\* the properties are the row's columns and the route type.
Feature(row) ==
    [type |-> "Feature",
     geometry |-> row.gid,
     properties |->
        [gid |-> row.gid,
         pedestrian_infrastructure_norm |-> row.pedestrian_infrastructure_norm,
         pavement_norm |-> row.pavement_norm,
         max_speed_norm |-> row.max_speed_norm,
         greenness_norm |-> row.greenness_norm,
         buildings_norm |-> row.buildings_norm,
         crossings_norm |-> row.crossings_norm,
         facilities_norm |-> row.facilities_norm,
         number_lanes_norm |-> row.number_lanes_norm,
         water_norm |-> row.water_norm,
         gradient_norm |-> row.gradient_norm,
         benches |-> row.benches,
         light |-> row.light,
         visuals |-> row.visuals,
         segment_length_meters |-> row.length,
         route_type |-> row.route_type]]

\* The rows the loop gets through: json.loads(None) raises TypeError at the
\* first row whose geometry is NULL.
RECURSIVE Loadable(_)
Loadable(rs) ==
    IF rs = << >> \/ ~Head(rs).geom THEN << >>
    ELSE <<Head(rs)>> \o Loadable(Tail(rs))

RECURSIVE FeaturesOf(_, _)
\* The features appended to the list of one route type.
FeaturesOf(rs, comfort) ==
    IF rs = << >> THEN << >>
    ELSE IF (Head(rs).route_type = "comfort") = comfort
         THEN <<Feature(Head(rs))>> \o FeaturesOf(Tail(rs), comfort)
         ELSE FeaturesOf(Tail(rs), comfort)

\* for row in rows: ...
Assemble ==
    /\ pc = "assemble"
    /\ comfort_features' = FeaturesOf(Loadable(rows), TRUE)
    /\ shortest_features' = FeaturesOf(Loadable(rows), FALSE)
    /\ IF Len(Loadable(rows)) < Len(rows)
       THEN Raise("TypeError")
       ELSE pc' = "metrics_query" /\ UNCHANGED raised
    /\ UNCHANGED <<data, weights, alpha, conn, cursor, source_id, target_id, rows,
                   metrics, response, log, probe>>

\* A metrics step that aggregates the edges of the rows already fetched and
\* does not call pgr_dijkstra.
MetricsFromRows ==
    /\ pc = "metrics_query"
    /\ LET gids(alias) == [i \in 1..Len(FeaturesOf(rows, alias = "comfort")) |->
                             FeaturesOf(rows, alias = "comfort")[i].properties.gid]
       IN metrics' = [comfort |-> MetricsRow("comfort", gids("comfort")),
                      shortest |-> MetricsRow("shortest", gids("shortest"))]
    /\ pc' = "respond"
    /\ UNCHANGED <<data, weights, alpha, conn, cursor, source_id, target_id, rows,
                   comfort_features, shortest_features, response, raised, log, probe>>

\* The metrics query: pgr_dijkstra is called again for both cost models, and
\* the aggregates are taken over the edges these calls return.
MetricsQuery ==
    /\ pc = "metrics_query"
    /\ \E c \in Dijkstra(ComfortEdges(weights, alpha), source_id, target_id),
          d \in Dijkstra(DistanceEdges, source_id, target_id) :
          LET calls == <<SolverCall("comfort", source_id, target_id, c),
                         SolverCall("distance", source_id, target_id, d)>>
          IN \/ /\ metrics' = [comfort |-> MetricsRow("comfort", c),
                               shortest |-> MetricsRow("shortest", d)]
                /\ log' = log \o calls
                /\ pc' = "respond"
                /\ UNCHANGED raised
             \/ \E k \in 0..2 :
                   /\ log' = log \o SubSeq(calls, 1, k)
                   /\ Raise("DatabaseError")
                   /\ UNCHANGED metrics
    /\ UNCHANGED <<data, weights, alpha, conn, cursor, source_id, target_id, rows,
                   comfort_features, shortest_features, response, probe>>

\* return jsonify({"comfort": ..., "shortest": ..., "metrics": metrics})
Respond ==
    /\ pc = "respond"
    /\ response' = [status |-> HttpOk, kind |-> "routes"]
    /\ pc' = "finally_cursor"
    /\ UNCHANGED <<data, weights, alpha, conn, cursor, source_id, target_id, rows,
                   comfort_features, shortest_features, metrics, raised, log, probe>>

\* except Exception as e: return jsonify({"error": str(e)}), 500
Except ==
    /\ pc = "except"
    /\ response' = [status |-> HttpServerError, kind |-> "error"]
    /\ pc' = "finally_cursor"
    /\ UNCHANGED <<data, weights, alpha, conn, cursor, source_id, target_id, rows,
                   comfort_features, shortest_features, metrics, raised, log, probe>>

\* finally: if cursor: cursor.close().  An exception raised here replaces the
\* return value and leaves the handler before conn.close() is reached.
CloseCursor ==
    /\ pc = "finally_cursor"
    /\ IF cursor = "none"
       THEN pc' = "finally_conn" /\ UNCHANGED <<cursor, response, raised, log>>
       ELSE /\ log' = Append(log, Call("cursor.close"))
            /\ \/ cursor' = "closed" /\ pc' = "finally_conn"
                  /\ UNCHANGED <<response, raised>>
               \/ Unhandled("DatabaseError") /\ UNCHANGED cursor
    /\ UNCHANGED <<data, weights, alpha, conn, source_id, target_id, rows,
                   comfort_features, shortest_features, metrics, probe>>

\* finally: if conn: conn.close().  This is the handler's last statement:
\* whatever it does, nothing is left to skip.
CloseConn ==
    /\ pc = "finally_conn"
    /\ IF conn = "none"
       THEN UNCHANGED <<conn, log>>
       ELSE conn' = "closed" /\ log' = Append(log, Call("conn.close"))
    /\ pc' = "done"
    /\ UNCHANGED <<data, weights, alpha, cursor, source_id, target_id, rows,
                   comfort_features, shortest_features, metrics, response, raised,
                   probe>>

Next ==
    \/ Parse \/ Connect \/ OpenCursor \/ CurrentUser \/ NearestStart \/ NearestEnd
    \/ RouteQuery \/ Assemble \/ MetricsQuery \/ Respond \/ Except
    \/ CloseCursor \/ CloseConn

Spec == Init /\ [][Next]_vars

\* ------------------------------------------- the cost models on their own
\* Weights in [0, 1] (tenths), alpha >= 0 (tenths; the three of the table and
\* 0), and edges of every length up to MaxLen whose attributes are NULL or
\* lie in [0, 1].
UnitWeights == {0, 5, 10}
ProbeWeights ==
    {[f \in Factors |-> CASE f = "sidewalks" -> x [] f = "light" -> y [] OTHER -> z]
        : x \in UnitWeights, y \in UnitWeights, z \in UnitWeights}
ProbeAlphas == {0, AlphaShort, AlphaBalanced, AlphaComfort}
AttrValues == {Null} \cup (0..AttrScale)
ProbeRoads ==
    {[UniformRoad(1, 1, 2, len, z) EXCEPT
          !.pedestrian_infrastructure_norm = x, !.light = y]
        : x \in AttrValues, y \in AttrValues, z \in AttrValues, len \in 0..MaxLen}

CostInit ==
    /\ probe \in {ProbeOf(w, a, e)
                    : w \in ProbeWeights, a \in ProbeAlphas, e \in ProbeRoads}
    /\ data = [start |-> "a", end |-> "a", sliders |-> [k \in {} |-> 0], length |-> JAbsent]
    /\ pc = "cost"
    /\ weights = NoWeights /\ alpha = 0
    /\ conn = "none" /\ cursor = "none"
    /\ source_id = 0 /\ target_id = 0
    /\ rows = << >>
    /\ comfort_features = << >> /\ shortest_features = << >>
    /\ metrics = NoMetrics
    /\ response = NoResponse
    /\ raised = ""
    /\ log = << >>

\* Both cost expressions evaluated on the edge.
EvalCosts ==
    /\ pc = "cost"
    /\ ~probe.done
    /\ probe' = [probe EXCEPT !.comfort = ComfortCost(probe.w, probe.a, probe.e),
                              !.distance = DistanceCost(probe.e),
                              !.done = TRUE]
    /\ UNCHANGED <<data, pc, weights, alpha, conn, cursor, source_id, target_id, rows,
                   comfort_features, shortest_features, metrics, response, raised, log>>

CostSpec == CostInit /\ [][EvalCosts]_vars

\* ------------------------------------------------------------------ claims
Indices(model) == {i \in 1..Len(log) : log[i].op = "pgr_dijkstra" /\ log[i].cost = model}
SolverCalls == {i \in 1..Len(log) : log[i].op = "pgr_dijkstra"}
Position(op) == {i \in 1..Len(log) : log[i].op = op}
Succeeded == pc = "done" /\ response.kind = "routes"
\* Every slider of the body lies on the 0-10 scale.
OnScale == \A k \in DOMAIN data.sliders : data.sliders[k] \in 0..WeightScale

RECURSIVE SegmentLengths(_)
\* The sum of segment_length_meters over a list of features.
SegmentLengths(fs) ==
    IF fs = << >> THEN 0
    ELSE Head(fs).properties.segment_length_meters + SegmentLengths(Tail(fs))

\* C1 (as claimed): a request without a required factor is answered with a
\* client error (a 4xx status), and no call reaches the database.
C1_MissingFactorIsClientError ==
    (pc = "done" /\ MissingRequired(data.sliders))
        => (response.status \in 400..499 /\ log = << >>)

\* C2 (as claimed): when pgr_dijkstra finds no path between two different
\* nodes, for either cost model, the request ends in a 500-class failure and
\* never in a success response (stated for requests whose sliders lie on the
\* 0-10 scale).
C2_NoPathIsServerFailure ==
    (pc = "done" /\ OnScale /\ \E i \in SolverCalls : log[i].src # log[i].tgt /\ log[i].out = << >>)
        => (response.status \in 500..599 /\ response.kind # "routes")

C4_EmptyRouteHasLengthZero ==
    (Succeeded /\ OnScale /\ source_id = target_id)
        => \A v \in {"comfort", "shortest"} :
              /\ metrics[v].total_length = [null |-> FALSE, v |-> 0]
              /\ \A c \in Columns : metrics[v].mean[c].null

C6_ComfortCostNonNegative ==
    Indices("comfort") # {}
        => \A r \in MunichRoads : ComfortCost(weights, alpha, r) >= 0

\* C7: with weights in [0, 1] and alpha >= 0, the comfort cost of an edge is
\* at least its distance cost, and equals it when all weights are 0.
C7_ComfortAtLeastDistance ==
    probe.done =>
        /\ probe.comfort >= probe.distance
        /\ probe.distance = probe.e.length * CostScale
        /\ (\A f \in Factors : probe.w[f] = 0) => probe.comfort = probe.distance

\* C7 (witness): an edge with a NULL attribute whose comfort cost exceeds its
\* distance cost.
C7_Witness ==
    /\ probe.done
    /\ probe.e.light = Null /\ probe.w["light"] > 0
    /\ probe.comfort > probe.distance

\* The alpha the claim assigns to a value of "length", in tenths.
C8_Expected(length) ==
    IF length = JInt(1) THEN AlphaShort
    ELSE IF length = JInt(3) THEN AlphaComfort
    ELSE AlphaBalanced

\* C8 (as claimed): levels 1, 2, 3 give alpha 0.5, 5.0, 10.0; an absent or
\* unrecognised level gives 5.0 and never fails the request (stated for
\* requests that carry the required sliders, on the 0-10 scale).
C8_UnknownLevelFallsBack ==
    (pc # "parse" /\ OnScale /\ ~MissingRequired(data.sliders))
        => (raised # "TypeError" /\ alpha = C8_Expected(data.length))

\* C9 (as claimed): when the handler is left and a connection was opened, the
\* connection is closed, and so is the cursor if one was created (stated for
\* requests whose sliders lie on the 0-10 scale).
C9_ConnectionClosed ==
    (pc = "done" /\ OnScale /\ conn # "none")
        => (conn = "closed" /\ cursor \in {"none", "closed"})

\* C10 (as claimed): in a success response, the total length in the metrics
\* of each variant is the sum of segment_length_meters over that variant's
\* features (stated for requests whose sliders lie on the 0-10 scale and for
\* the variants whose route has an edge).
C10_MetricsDescribeFeatures ==
    (Succeeded /\ OnScale) =>
        /\ comfort_features # << >> =>
              metrics["comfort"].total_length =
                  [null |-> FALSE, v |-> SegmentLengths(comfort_features)]
        /\ shortest_features # << >> =>
              metrics["shortest"].total_length =
                  [null |-> FALSE, v |-> SegmentLengths(shortest_features)]

====
